---------------------------- MODULE Spec2Model ----------------------------
(***************************************************************************)
(* A model of the synchronisation core of bouldy: the todo.txt codec       *)
(* (src-tauri/src/todos.rs), the archive and streak engine built on it,    *)
(* the todo commands of src-tauri/src/lib.rs and the vault watcher         *)
(* (src-tauri/src/watcher.rs).                                             *)
(*                                                                         *)
(* Text is modelled as a sequence of one-character strings, so that the    *)
(* codec's character-level behaviour (starts_with, replace, the date       *)
(* regex, split_whitespace) is computed and not assumed.  An Option<T> is  *)
(* a sequence of length 0 (None) or 1 (Some).                              *)
(***************************************************************************)
EXTENDS Integers, Sequences, FiniteSets, TLC

VARIABLES
    \* ---- codec harness (SpecCodec) ----
    cItems,      \* the item collection handed to serialize_todos
    cText,       \* serialize_todos(cItems)
    cParsed,     \* parse_todos(cText)
    cText2,      \* serialize_todos(cParsed)
    cPc,         \* how far the round trip has been computed
    \* ---- the vault on disk and the todo commands (Spec) ----
    todoFile,    \* <vault>/todo.txt: None when missing, else Some(text)
    metaFile,    \* <vault>/.bouldy/todo-metadata.json
    bouldyDir,   \* whether <vault>/.bouldy exists
    archivesDir, \* whether <vault>/.bouldy/archives exists
    archives,    \* month key -> text of .bouldy/archives/done-<month>.txt
    nowDays,     \* SystemTime::now() in whole days since the epoch
    failures,    \* how many writes have failed so far
    last,        \* the most recent command and what it returned
    running,     \* the todo commands in flight: what each has loaded so far
    \* ---- the watched vault (SpecWatcher) ----
    onDisk,      \* the watched files that exist, each with the rank of its
                 \* modification time among the notes (0: not a note)
    pending,     \* the raw events of the debounce window that is open
    window,      \* the raw events of the window that closed last
    batch,       \* the events the debouncer handed to the callback for it
    emitted,     \* what the callback emitted for that batch, in order
    lastList,    \* the payload of the most recent note:list-updated
    \* ---- starting the watcher (SpecStart) ----
    dirs,        \* the directories that exist, as <<vault, name>>
    managed,     \* the application state's Mutex<Option<Debouncer>>: None until managed
    watchers,    \* the debouncers that have not been dropped
    started      \* the start_vault_watcher calls so far and what they returned

codecVars == <<cItems, cText, cParsed, cText2, cPc>>
vaultVars ==
    <<todoFile, metaFile, bouldyDir, archivesDir, archives, nowDays, failures, last,
      running>>

watcherVars == <<onDisk, pending, window, batch, emitted, lastList>>

startVars == <<dirs, managed, watchers, started>>

vars == <<codecVars, vaultVars, watcherVars, startVars>>

\* ------------------------------------------------------------------------
\* Option<T>
\* ------------------------------------------------------------------------
None == <<>>
Some(v) == <<v>>
IsSome(o) == o # <<>>
Unwrap(o) == o[1]

\* Result<T, String>
Ok(v) == [ok |-> TRUE, value |-> v, error |-> ""]
Err(msg) == [ok |-> FALSE, value |-> 0, error |-> msg]

\* ------------------------------------------------------------------------
\* Character classes and the string helpers of Rust's str that the codec uses
\* ------------------------------------------------------------------------
Digits == {"0", "1", "2", "3", "4", "5", "6", "7", "8", "9"}
Uppercase == {"A", "B", "C", "D", "E", "F", "G", "H", "I", "J", "K", "L", "M",
              "N", "O", "P", "Q", "R", "S", "T", "U", "V", "W", "X", "Y", "Z"}
IsWs(c) == c \in {" ", "\t", "\n", "\r"}

SetMin(S) == CHOOSE m \in S : \A n \in S : m <= n

\* str::starts_with
StartsWith(s, p) == Len(p) <= Len(s) /\ SubSeq(s, 1, Len(p)) = p

\* str::trim_start, str::trim_end, str::trim
RECURSIVE TrimStart(_)
TrimStart(s) == IF s # <<>> /\ IsWs(Head(s)) THEN TrimStart(Tail(s)) ELSE s

RECURSIVE TrimEnd(_)
TrimEnd(s) ==
    IF s # <<>> /\ IsWs(s[Len(s)]) THEN TrimEnd(SubSeq(s, 1, Len(s) - 1)) ELSE s

Trim(s) == TrimEnd(TrimStart(s))

\* str::replace(pat, ""): every non-overlapping occurrence, left to right
RECURSIVE Replace(_, _)
Replace(s, pat) ==
    IF pat = <<>> \/ s = <<>> THEN s
    ELSE IF StartsWith(s, pat) THEN Replace(SubSeq(s, Len(pat) + 1, Len(s)), pat)
    ELSE <<Head(s)>> \o Replace(Tail(s), pat)

\* str::split_whitespace
RECURSIVE TakeWord(_)
TakeWord(s) ==
    IF s = <<>> \/ IsWs(Head(s)) THEN <<>> ELSE <<Head(s)>> \o TakeWord(Tail(s))

RECURSIVE SplitWhitespace(_)
SplitWhitespace(s) ==
    LET word_and_rest(t, w) == <<w>> \o SplitWhitespace(SubSeq(t, Len(w) + 1, Len(t)))
        words(t) == IF t = <<>> THEN <<>> ELSE word_and_rest(t, TakeWord(t))
    IN words(TrimStart(s))

\* [String]::join(sep)
RECURSIVE Join(_, _)
Join(parts, sep) ==
    IF parts = <<>> THEN <<>>
    ELSE IF Len(parts) = 1 THEN parts[1]
    ELSE parts[1] \o sep \o Join(Tail(parts), sep)

\* str::lines: split at "\n", a trailing "\r" of a line dropped, no final
\* empty line
RECURSIVE TakeLine(_)
TakeLine(s) ==
    IF s = <<>> \/ Head(s) = "\n" THEN <<>> ELSE <<Head(s)>> \o TakeLine(Tail(s))

RECURSIVE Lines(_)
Lines(s) ==
    IF s = <<>> THEN <<>>
    ELSE LET bare(l) == IF l # <<>> /\ l[Len(l)] = "\r"
                        THEN SubSeq(l, 1, Len(l) - 1) ELSE l
             line_and_rest(l) == <<bare(l)>> \o Lines(SubSeq(s, Len(l) + 2, Len(s)))
         IN line_and_rest(TakeLine(s))

\* ------------------------------------------------------------------------
\* todos.rs: the codec
\* ------------------------------------------------------------------------
TodoItem(id, title, completed, due_date, priority, projects, contexts, created_date) ==
    [id |-> id, title |-> title, completed |-> completed, due_date |-> due_date,
     priority |-> priority, projects |-> projects, contexts |-> contexts,
     created_date |-> created_date]

\* extract_due_date: the first word that starts with "due:", without the prefix
extract_due_date(content) ==
    LET first_due(words, hits) ==
            IF hits = {} THEN None
            ELSE Some(SubSeq(words[SetMin(hits)], 5, Len(words[SetMin(hits)])))
        find_map(words) ==
            first_due(words, {i \in 1..Len(words) :
                                StartsWith(words[i], <<"d", "u", "e", ":">>)})
    IN find_map(SplitWhitespace(content))

\* extract_priority: "(", one uppercase letter, ")" at the start of the trimmed text
extract_priority(content) ==
    LET priority_of(trimmed, closes) ==
            IF /\ StartsWith(trimmed, <<"(">>)
               /\ Len(trimmed) > 2
               /\ closes # {}
               /\ SetMin(closes) = 3
               /\ trimmed[2] \in Uppercase
            THEN Some(<<trimmed[2]>>)
            ELSE None
        find_close(trimmed) ==
            priority_of(trimmed, {i \in 1..Len(trimmed) : trimmed[i] = ")"})
    IN find_close(Trim(content))

\* the words that start with `sigil` and are longer than it, without the sigil
TaggedWords(content, sigil) ==
    LET IsTag(w) == StartsWith(w, <<sigil>>) /\ Len(w) > 1
        without_sigil(tags) == [i \in 1..Len(tags) |-> Tail(tags[i])]
    IN without_sigil(SelectSeq(SplitWhitespace(content), IsTag))

extract_projects(content) == TaggedWords(content, "+")

extract_contexts(content) == TaggedWords(content, "@")

\* the regex \d{4}-\d{2}-\d{2} matches at position i
IsDateAt(s, i) ==
    /\ i + 9 <= Len(s)
    /\ \A k \in 0..9 : IF k \in {4, 7} THEN s[i + k] = "-" ELSE s[i + k] \in Digits

\* extract_created_date: the first match of the date regex anywhere in the text
extract_created_date(content) ==
    LET first_match(hits) ==
            IF hits = {} THEN None
            ELSE Some(SubSeq(content, SetMin(hits), SetMin(hits) + 9))
    IN first_match({i \in 1..Len(content) : IsDateAt(content, i)})

\* title.replace("<sigil><tag>", "") for every tag, in order
RECURSIVE RemoveTags(_, _, _)
RemoveTags(title, tags, sigil) ==
    IF tags = <<>> THEN title
    ELSE RemoveTags(Replace(title, <<sigil>> \o Head(tags)), Tail(tags), sigil)

\* parse_todo_line, step by step: 1. the completion marker, 2. the priority,
\* 3. the creation date, 4. the tags, 5. the title with all of them removed
parse_todo_line(line, line_num) ==
    LET remove_due(title, due_date) ==
            IF IsSome(due_date)
            THEN Replace(title, <<"d", "u", "e", ":">> \o Unwrap(due_date))
            ELSE title
        remove_created(title, created_date) ==
            IF IsSome(created_date) THEN Replace(title, Unwrap(created_date)) ELSE title
        clean_title(content, due_date, created_date, projects, contexts) ==
            Join(SplitWhitespace(
                     RemoveTags(
                         RemoveTags(
                             remove_created(remove_due(content, due_date), created_date),
                             projects, "+"),
                         contexts, "@")),
                 <<" ">>)
        item(completed, priority, content, created_date, due_date, projects, contexts) ==
            TodoItem(line_num,
                     clean_title(content, due_date, created_date, projects, contexts),
                     completed, due_date, priority, projects, contexts, created_date)
        with_tags(completed, priority, content) ==
            item(completed, priority, content, extract_created_date(content),
                 extract_due_date(content), extract_projects(content),
                 extract_contexts(content))
        with_priority(completed, content, priority) ==
            with_tags(completed, priority,
                      IF IsSome(priority)
                      THEN Trim(Replace(content, <<"(">> \o Unwrap(priority) \o <<")">>))
                      ELSE content)
        after_marker(completed, content) ==
            with_priority(completed, content, extract_priority(content))
        with_marker(completed) ==
            after_marker(completed,
                         IF completed THEN TrimStart(Tail(TrimStart(line))) ELSE line)
    IN with_marker(StartsWith(TrimStart(line), <<"x">>))

\* a line whose title comes out empty is refused
parse_line_result_strict(line, line_num) ==
    IF parse_todo_line(line, line_num).title = <<>>
    THEN Err("Empty title")
    ELSE Ok(parse_todo_line(line, line_num))

\* what parse_todo_line returns: Ok(TodoItem { .. }) on its only return path
parse_line_result(line, line_num) == Ok(parse_todo_line(line, line_num))

\* parse_todos: one item per non-blank line that parse_todo_line accepts, its
\* id the line's number
RECURSIVE ParseLines(_, _)
ParseLines(ls, line_num) ==
    IF ls = <<>> THEN <<>>
    ELSE (IF Trim(Head(ls)) = <<>> THEN <<>>
          ELSE LET pushed(parsed) == IF parsed.ok THEN <<parsed.value>> ELSE <<>>
               IN pushed(parse_line_result(Trim(Head(ls)), line_num)))
         \o ParseLines(Tail(ls), line_num + 1)

parse_todos(content) ==
    IF Trim(content) = <<>> THEN <<>> ELSE ParseLines(Lines(content), 1)

RECURSIVE PrefixAll(_, _)
PrefixAll(tags, sigil) ==
    IF tags = <<>> THEN <<>> ELSE <<<<sigil>> \o Head(tags)>> \o PrefixAll(Tail(tags), sigil)

serialize_line(todo) ==
    LET parts ==
            (IF todo.completed THEN <<<<"x">>>> ELSE <<>>)
         \o (IF IsSome(todo.priority)
             THEN <<<<"(">> \o Unwrap(todo.priority) \o <<")">>>> ELSE <<>>)
         \o (IF IsSome(todo.created_date) THEN <<Unwrap(todo.created_date)>> ELSE <<>>)
         \o <<todo.title>>
         \o PrefixAll(todo.projects, "+")
         \o PrefixAll(todo.contexts, "@")
         \o (IF IsSome(todo.due_date)
             THEN <<<<"d", "u", "e", ":">> \o Unwrap(todo.due_date)>> ELSE <<>>)
    IN Join(parts, <<" ">>) \o <<"\n">>

RECURSIVE serialize_todos(_)
serialize_todos(todos) ==
    IF todos = <<>> THEN <<>>
    ELSE serialize_line(Head(todos)) \o serialize_todos(Tail(todos))

\* ------------------------------------------------------------------------
\* todos.rs: the live file
\* ------------------------------------------------------------------------
\* load_todos: a missing todo.txt is an empty collection
load_todos(file) == IF IsSome(file) THEN parse_todos(Unwrap(file)) ELSE <<>>

\* find_todo_mut: the position of the first item with this id, 0 when none
find_todo(todos, id) ==
    LET hits == {i \in 1..Len(todos) : todos[i].id = id}
    IN IF hits = {} THEN 0 ELSE SetMin(hits)

IsCompleted(t) == t.completed
IsIncomplete(t) == ~t.completed

\* ------------------------------------------------------------------------
\* todos.rs: dates
\* ------------------------------------------------------------------------
DigitChar(d) ==
    CASE d = 0 -> "0" [] d = 1 -> "1" [] d = 2 -> "2" [] d = 3 -> "3" [] d = 4 -> "4"
      [] d = 5 -> "5" [] d = 6 -> "6" [] d = 7 -> "7" [] d = 8 -> "8" [] d = 9 -> "9"

DigitValue(c) ==
    CASE c = "0" -> 0 [] c = "1" -> 1 [] c = "2" -> 2 [] c = "3" -> 3 [] c = "4" -> 4
      [] c = "5" -> 5 [] c = "6" -> 6 [] c = "7" -> 7 [] c = "8" -> 8 [] c = "9" -> 9

\* the decimal digits of a natural number
RECURSIVE Decimal(_)
Decimal(n) ==
    IF n < 10 THEN <<DigitChar(n)>> ELSE Decimal(n \div 10) \o <<DigitChar(n % 10)>>

\* format!("{:0width$}", n)
RECURSIVE ZeroPad(_, _)
ZeroPad(s, width) == IF Len(s) >= width THEN s ELSE ZeroPad(<<"0">> \o s, width)

Fmt(n, width) == ZeroPad(Decimal(n), width)

\* str::parse::<i32> of an unsigned decimal: None unless all digits
RECURSIVE DigitsValue(_, _)
DigitsValue(s, acc) ==
    IF s = <<>> THEN acc ELSE DigitsValue(Tail(s), 10 * acc + DigitValue(Head(s)))

ParseInt(s) ==
    IF s # <<>> /\ \A i \in 1..Len(s) : s[i] \in Digits
    THEN Some(DigitsValue(s, 0)) ELSE None

\* str::split('-')
RECURSIVE TakeUntilDash(_)
TakeUntilDash(s) ==
    IF s = <<>> \/ Head(s) = "-" THEN <<>> ELSE <<Head(s)>> \o TakeUntilDash(Tail(s))

RECURSIVE SplitDash(_)
SplitDash(s) ==
    LET part == TakeUntilDash(s) IN
    IF Len(part) = Len(s) THEN <<part>>
    ELSE <<part>> \o SplitDash(SubSeq(s, Len(part) + 2, Len(s)))

\* get_current_date: 365-day years and 30-day months counted from the epoch
get_current_date(days) ==
    LET year == 1970 + (days \div 365)
        day_of_year == days % 365
        month == (day_of_year \div 30) + 1
        day == (day_of_year % 30) + 1
    IN Fmt(year, 4) \o <<"-">> \o Fmt(month, 2) \o <<"-">> \o Fmt(day, 2)

\* get_current_month: the first seven characters of the date
get_current_month(days) == SubSeq(get_current_date(days), 1, 7)

\* the previous-day step of calculate_streak; None when the key does not parse
prev_day(current_date) ==
    LET step(y, m, d) ==
            IF IsSome(y) /\ IsSome(m) /\ IsSome(d)
            THEN Some(IF Unwrap(d) > 1
                      THEN Fmt(Unwrap(y), 4) \o <<"-">> \o Fmt(Unwrap(m), 2) \o <<"-">>
                           \o Fmt(Unwrap(d) - 1, 2)
                      ELSE IF Unwrap(m) > 1
                      THEN Fmt(Unwrap(y), 4) \o <<"-">> \o Fmt(Unwrap(m) - 1, 2)
                           \o <<"-", "3", "0">>
                      ELSE Fmt(Unwrap(y) - 1, 4) \o <<"-", "1", "2", "-", "3", "0">>)
            ELSE None
        parsed(parts) == step(ParseInt(parts[1]), ParseInt(parts[2]), ParseInt(parts[3]))
    IN parsed(SplitDash(current_date))

\* the loop of calculate_streak, from current_date backwards
RECURSIVE StreakFrom(_, _)
StreakFrom(completions_by_day, current_date) ==
    LET counted(prev) ==
            1 + (IF IsSome(prev) THEN StreakFrom(completions_by_day, Unwrap(prev)) ELSE 0)
    IN IF current_date \in DOMAIN completions_by_day
       THEN counted(prev_day(current_date))
       ELSE 0

calculate_streak(completions_by_day, days) ==
    IF DOMAIN completions_by_day = {} THEN 0
    ELSE StreakFrom(completions_by_day, get_current_date(days))

\* ------------------------------------------------------------------------
\* todos.rs: metadata
\* ------------------------------------------------------------------------
DefaultDailyLimit == 5

EmptyMap == [k \in {} |-> 0]

\* HashMap entry(k).or_insert(0) += n
MapAdd(m, k, n) ==
    [x \in DOMAIN m \cup {k} |->
        IF x = k THEN (IF k \in DOMAIN m THEN m[k] ELSE 0) + n ELSE m[x]]

MapGet(m, k) == IF k \in DOMAIN m THEN m[k] ELSE 0

\* TodoStats::default() inside TodoMetadata::default()
DefaultMetadata ==
    [daily_limit |-> DefaultDailyLimit,
     stats |-> [total_completed |-> 0, current_streak |-> 0, longest_streak |-> 0,
                completions_by_month |-> EmptyMap, completions_by_day |-> EmptyMap]]

\* The metadata file: missing, unparseable, or holding a TodoMetadata (serde's
\* JSON encoding of the struct is taken to read back what was written)
MetaMissing == [state |-> "missing", data |-> DefaultMetadata]
MetaCorrupt == [state |-> "corrupt", data |-> DefaultMetadata]
MetaHolding(metadata) == [state |-> "ok", data |-> metadata]

\* a file that does not parse read as the default metadata
load_metadata_lenient(file) ==
    CASE file.state = "ok" -> [ok |-> TRUE, metadata |-> file.data]
      [] OTHER -> [ok |-> TRUE, metadata |-> DefaultMetadata]

\* load_metadata: the default when the file is missing, an error when it does
\* not parse
load_metadata(file) ==
    CASE file.state = "missing" -> [ok |-> TRUE, metadata |-> DefaultMetadata]
      [] file.state = "corrupt" -> [ok |-> FALSE, metadata |-> DefaultMetadata]
      [] OTHER -> [ok |-> TRUE, metadata |-> file.data]

\* the longest streak left as it was
update_stats_longest_stale(stats, count, days) ==
    LET with_streak(by_day, by_month, current_streak) ==
            [total_completed |-> stats.total_completed + count,
             current_streak |-> current_streak,
             longest_streak |-> stats.longest_streak,
             completions_by_month |-> by_month,
             completions_by_day |-> by_day]
        with_counters(by_day, by_month) ==
            with_streak(by_day, by_month, calculate_streak(by_day, days))
    IN with_counters(
           MapAdd(stats.completions_by_day, get_current_date(days), count),
           MapAdd(stats.completions_by_month, get_current_month(days), count))

\* the month's counter left as it was
update_stats_without_month(stats, count, days) ==
    LET with_streak(by_day, current_streak) ==
            [total_completed |-> stats.total_completed + count,
             current_streak |-> current_streak,
             longest_streak |-> IF current_streak > stats.longest_streak
                                THEN current_streak ELSE stats.longest_streak,
             completions_by_month |-> stats.completions_by_month,
             completions_by_day |-> by_day]
        with_counters(by_day) == with_streak(by_day, calculate_streak(by_day, days))
    IN with_counters(MapAdd(stats.completions_by_day, get_current_date(days), count))

\* archive_completed_todos, "Update stats" and "Calculate streaks"
update_stats(stats, count, days) ==
    LET with_streak(by_day, by_month, current_streak) ==
            [total_completed |-> stats.total_completed + count,
             current_streak |-> current_streak,
             longest_streak |-> IF current_streak > stats.longest_streak
                                THEN current_streak ELSE stats.longest_streak,
             completions_by_month |-> by_month,
             completions_by_day |-> by_day]
        with_counters(by_day, by_month) ==
            with_streak(by_day, by_month, calculate_streak(by_day, days))
    IN with_counters(
           MapAdd(stats.completions_by_day, get_current_date(days), count),
           MapAdd(stats.completions_by_month, get_current_month(days), count))

\* ------------------------------------------------------------------------
\* todos.rs: archive_completed_todos
\* ------------------------------------------------------------------------
\* the files and directories a command can write
Disk == [todoFile |-> todoFile, metaFile |-> metaFile, bouldyDir |-> bouldyDir,
         archivesDir |-> archivesDir, archives |-> archives]

\* "[<today>] <title>\n" for every completed item
RECURSIVE archive_lines(_, _)
archive_lines(completed_todos, today) ==
    IF completed_todos = <<>> THEN <<>>
    ELSE <<"[">> \o today \o <<"]", " ">> \o Head(completed_todos).title \o <<"\n">>
         \o archive_lines(Tail(completed_todos), today)

\* the early return left out: an empty completed set is archived like any other
nothing_to_archive_never(completed_todos) == FALSE

\* completed_todos.is_empty(): nothing to archive
nothing_to_archive(completed_todos) == completed_todos = <<>>

\* the archive file appended to first, the statistics after it, the live
\* file last
archive_write_steps_archive_first ==
    <<"create_archives_dir", "write_archive", "create_bouldy_dir", "write_metadata",
      "write_todos">>

\* the live file rewritten first, the archive and the statistics after it
archive_write_steps_live_first ==
    <<"write_todos", "create_bouldy_dir", "write_metadata", "create_archives_dir",
      "write_archive">>

\* The writes of archive_completed_todos in the order the code performs them:
\* save_metadata (create_dir_all of .bouldy, then the write), create_dir_all of
\* the archives directory, the archive file's write, save_todos
archive_write_steps ==
    <<"create_bouldy_dir", "write_metadata", "create_archives_dir", "write_archive",
      "write_todos">>

\* the archive file read as empty whether it exists or not
read_archive_fresh(files, month) == <<>>

\* archive_file.exists(): fs::read_to_string of it, else String::new()
read_archive(files, month) == IF month \in DOMAIN files THEN files[month] ELSE <<>>

\* the error a failed step maps to
StepError(step) ==
    CASE step = "create_bouldy_dir" -> "Failed to create .bouldy directory"
      [] step = "write_metadata" -> "Failed to write metadata"
      [] step = "create_archives_dir" -> "Failed to create archives directory"
      [] step = "write_archive" -> "Failed to write archive file"
      [] step = "write_todos" -> "Failed to write todos"

\* one write of archive_completed_todos applied to the disk
ApplyWrite(disk, step, metadata, completed_todos, remaining_todos, days) ==
    CASE step = "create_bouldy_dir" -> [disk EXCEPT !.bouldyDir = TRUE]
      [] step = "write_metadata" -> [disk EXCEPT !.metaFile = MetaHolding(metadata)]
      [] step = "create_archives_dir" ->
            [disk EXCEPT !.bouldyDir = TRUE, !.archivesDir = TRUE]
      [] step = "write_archive" ->
            LET written(month, archive_content) ==
                    [disk EXCEPT !.archives =
                        [k \in DOMAIN disk.archives \cup {month} |->
                            IF k = month
                            THEN archive_content
                                 \o archive_lines(completed_todos, get_current_date(days))
                            ELSE disk.archives[k]]]
                archive_file(month) == written(month, read_archive(disk.archives, month))
            IN archive_file(get_current_month(days))
      [] step = "write_todos" ->
            [disk EXCEPT !.todoFile = Some(serialize_todos(remaining_todos))]

\* the writes in order, each `?` returning the error of the step that fails
RECURSIVE RunWrites(_, _, _, _, _, _, _)
RunWrites(disk, steps, failing, metadata, completed_todos, remaining_todos, days) ==
    IF steps = <<>> THEN [disk |-> disk, failed |-> None]
    ELSE IF Head(steps) = failing THEN [disk |-> disk, failed |-> Some(failing)]
    ELSE RunWrites(ApplyWrite(disk, Head(steps), metadata, completed_todos,
                              remaining_todos, days),
                   Tail(steps), failing, metadata, completed_todos, remaining_todos,
                   days)

\* what a call leaves: the disk, what it returned, and the write that failed
Outcome(disk, result, failed) == [disk |-> disk, result |-> result, failed |-> failed]

\* archive_completed_todos as a function of the disk, the day and the write
\* that fails ("none": no write fails)
archive_outcome(disk, days, failing) ==
    LET written(run, count) ==
            IF IsSome(run.failed)
            THEN Outcome(run.disk, Err(StepError(Unwrap(run.failed))), run.failed)
            ELSE Outcome(run.disk, Ok(count), None)
        archive(loaded, completed_todos, remaining_todos, count) ==
            IF ~loaded.ok THEN Outcome(disk, Err("Failed to parse metadata"), None)
            ELSE IF nothing_to_archive(completed_todos) THEN Outcome(disk, Ok(0), None)
            ELSE written(RunWrites(disk, archive_write_steps, failing,
                                   [loaded.metadata EXCEPT
                                      !.stats = update_stats(loaded.metadata.stats,
                                                             count, days)],
                                   completed_todos, remaining_todos, days),
                         count)
        split(loaded, todos, completed_todos) ==
            archive(loaded, completed_todos, SelectSeq(todos, IsIncomplete),
                    Len(completed_todos))
        loaded_both(todos, loaded) == split(loaded, todos, SelectSeq(todos, IsCompleted))
    IN loaded_both(load_todos(disk.todoFile), load_metadata(disk.metaFile))

\* save_metadata: create_dir_all of .bouldy, then the write
save_metadata_steps == <<"create_bouldy_dir", "write_metadata">>

\* save_todos: the write of todo.txt
save_todos_steps == <<"write_todos">>

\* ------------------------------------------------------------------------
\* lib.rs: the commands, each as a function of the disk and its arguments
\* ------------------------------------------------------------------------
\* a fresh TodoMetadata with the limit, the loaded statistics dropped
limit_metadata_fresh(metadata, limit) == [DefaultMetadata EXCEPT !.daily_limit = limit]

\* set_daily_limit: the loaded metadata with its limit replaced
limit_metadata(metadata, limit) == [metadata EXCEPT !.daily_limit = limit]

set_daily_limit_outcome(disk, limit, failing) ==
    LET saved(run) ==
            IF IsSome(run.failed)
            THEN Outcome(run.disk, Err(StepError(Unwrap(run.failed))), run.failed)
            ELSE Outcome(run.disk, Ok(0), None)
        with_limit(loaded) ==
            IF ~loaded.ok THEN Outcome(disk, Err("Failed to parse metadata"), None)
            ELSE saved(RunWrites(disk, save_metadata_steps, failing,
                                 limit_metadata(loaded.metadata, limit), <<>>, <<>>, 0))
    IN with_limit(load_metadata(disk.metaFile))

\* load_todos, change the collection, save_todos
save_outcome(disk, todos_list, value, failing) ==
    LET saved(run) ==
            IF IsSome(run.failed)
            THEN Outcome(run.disk, Err(StepError(Unwrap(run.failed))), run.failed)
            ELSE Outcome(run.disk, Ok(value), None)
    IN saved(RunWrites(disk, save_todos_steps, failing, DefaultMetadata, <<>>,
                       todos_list, 0))

\* toggle_todo: the first item with the id has its completed flag inverted
toggle_todo_outcome(disk, id, failing) ==
    LET toggled(todos_list, at) ==
            IF at = 0 THEN Outcome(disk, Err("Todo not found"), None)
            ELSE save_outcome(disk,
                              [todos_list EXCEPT
                                 ![at].completed = ~todos_list[at].completed],
                              id, failing)
        found(todos_list) == toggled(todos_list, find_todo(todos_list, id))
    IN found(load_todos(disk.todoFile))

\* ------------------------------------------------------------------------
\* The vault and the commands that act on it (Spec)
\* ------------------------------------------------------------------------
MaxCompleted == 2
MaxDays == 1
MaxFailures == 1

\* The first day of the run: the last day of get_current_date's first 30-day
\* month of 2026 ("2026-01-30"); the day after it is "2026-02-01"
StartDay == 365 * 56 + 29

\* A todo.txt written by hand, with a tag before the title of its first line:
\*     @c xa
\*     x b
HandWritten ==
    <<"@", "c", " ", "x", "a", "\n", "x", " ", "b", "\n">>

\* the todo.txt the vault starts with: missing, or the hand-written one
InitialTodoFiles == {None, Some(HandWritten)}

\* the metadata file the vault starts with: missing, or one that does not parse
InitialMetaFiles == {MetaMissing, MetaCorrupt}

\* the limits set_daily_limit is given
Limits == {3}

WriteFailures(steps) == {"none"} \cup {steps[i] : i \in 1..Len(steps)}

NoCall == [op |-> "none", args |-> <<>>, result |-> Ok(0), todos_changed |-> FALSE]

\* a command's response: what it returned, and whether its handler emitted
\* todos_changed (which it does after the `?`, so only when it succeeds);
\* args are the indices a reorder was asked for
Response(op, result, emits) ==
    [op |-> op, args |-> <<>>, result |-> result, todos_changed |-> emits /\ result.ok]

\* a todo command in flight: not called yet ("idle"), past its load_todos
\* with the collection it will save ("loaded"), or returned ("done")
NotCalled == [pc |-> "idle", todos_list |-> <<>>, result |-> Ok(0)]

\* no command in flight; found is the live file the commands were called on
NoRace == [found |-> None, create_todo |-> NotCalled, toggle_todo |-> NotCalled]

VaultFresh ==
    /\ running = NoRace
    /\ todoFile = None
    /\ metaFile = MetaMissing
    /\ bouldyDir = FALSE
    /\ archivesDir = FALSE
    /\ archives = [k \in {} |-> <<>>]
    /\ nowDays = StartDay
    /\ failures = 0
    /\ last = NoCall

WatcherIdle ==
    /\ onDisk = [p \in {} |-> 0]
    /\ lastList = None
    /\ pending = <<>>
    /\ window = <<>>
    /\ batch = <<>>
    /\ emitted = <<>>

StartIdle ==
    /\ dirs = {}
    /\ managed = None
    /\ watchers = {}
    /\ started = <<>>

CodecIdle ==
    /\ cItems = <<>>
    /\ cText = <<>>
    /\ cParsed = <<>>
    /\ cText2 = <<>>
    /\ cPc = "idle"

Init ==
    /\ todoFile \in InitialTodoFiles
    /\ metaFile \in InitialMetaFiles
    /\ bouldyDir = (metaFile # MetaMissing)
    /\ archivesDir = FALSE
    /\ archives = [k \in {} |-> <<>>]
    /\ nowDays = StartDay
    /\ failures = 0
    /\ last = NoCall
    /\ running = NoRace
    /\ CodecIdle
    /\ WatcherIdle
    /\ StartIdle

\* the disk after a command
Commit(outcome) ==
    /\ todoFile' = outcome.disk.todoFile
    /\ metaFile' = outcome.disk.metaFile
    /\ bouldyDir' = outcome.disk.bouldyDir
    /\ archivesDir' = outcome.disk.archivesDir
    /\ archives' = outcome.disk.archives

\* The write `failing` fails in this call ("none": every write succeeds); a
\* failure is one the call runs into, and at most MaxFailures writes ever fail
Fails(outcome, failing) ==
    /\ failing # "none" =>
          /\ failures < MaxFailures
          /\ outcome.failed = Some(failing)
    /\ failures' = IF failing = "none" THEN failures ELSE failures + 1

archive_completed_todos ==
    \E failing \in WriteFailures(archive_write_steps) :
        \E outcome \in {archive_outcome(Disk, nowDays, failing)} :
        /\ metaFile.data.stats.total_completed
             + Len(SelectSeq(load_todos(todoFile), IsCompleted)) <= MaxCompleted
        /\ Fails(outcome, failing)
        /\ Commit(outcome)
        /\ last' = Response("archive_completed_todos", outcome.result, TRUE)
        /\ UNCHANGED <<nowDays, running, codecVars, watcherVars, startVars>>

set_daily_limit ==
    \E limit \in Limits, failing \in WriteFailures(save_metadata_steps) :
        \E outcome \in {set_daily_limit_outcome(Disk, limit, failing)} :
        /\ Fails(outcome, failing)
        /\ Commit(outcome)
        /\ last' = Response("set_daily_limit", outcome.result, FALSE)
        /\ UNCHANGED <<nowDays, running, codecVars, watcherVars, startVars>>

toggle_todo ==
    \E id \in 1..(Len(load_todos(todoFile)) + 1), failing \in WriteFailures(save_todos_steps) :
        \E outcome \in {toggle_todo_outcome(Disk, id, failing)} :
        /\ Fails(outcome, failing)
        /\ Commit(outcome)
        /\ last' = Response("toggle_todo", outcome.result, TRUE)
        /\ UNCHANGED <<nowDays, running, codecVars, watcherVars, startVars>>

\* midnight passes
NextDay ==
    /\ nowDays < StartDay + MaxDays
    /\ nowDays' = nowDays + 1
    /\ last' = NoCall
    /\ UNCHANGED <<todoFile, metaFile, bouldyDir, archivesDir, archives, failures,
                   running, codecVars, watcherVars, startVars>>

Next ==
    \/ archive_completed_todos
    \/ set_daily_limit
    \/ toggle_todo
    \/ NextDay

Spec == Init /\ [][Next]_vars

\* ------------------------------------------------------------------------
\* watcher.rs: paths, raw events and the debouncer's callback
\* ------------------------------------------------------------------------
\* A path is the directory it lies in ("vault": the vault root, "notes",
\* "prompts"), its file stem and its extension
Path(dir, stem, ext) == [dir |-> dir, stem |-> stem, ext |-> ext]

\* vault.join("todo.txt")
todo_file == Path("vault", "todo", "txt")

\* path.starts_with(&notes_dir), path.starts_with(&prompts_dir)
InNotesDir(path) == path.dir = "notes"
InPromptsDir(path) == path.dir = "prompts"

\* the extension check left out: every file counts as a note
is_markdown_any(path) == TRUE

\* path.extension().and_then(|s| s.to_str()) != Some("md"): not a note, skipped
is_markdown(path) == path.ext = "md"

\* matches!(event.kind, EventKind::Modify(_) | EventKind::Create(_)) for todo.txt
todo_changed_kind(kind) ==
    kind \in {"Create", "Modify(Data)", "Modify(Metadata)", "Modify(Name)"}

\* notify::EventKind, as far as the callback and the debouncer tell kinds apart
EventKinds ==
    {"Create", "Modify(Data)", "Modify(Metadata)", "Modify(Name)", "Remove", "Access"}
IsCreate(kind) == kind = "Create"
IsModify(kind) == kind \in {"Modify(Data)", "Modify(Metadata)", "Modify(Name)"}
IsRemove(kind) == kind = "Remove"

RawEvent(kind, path) == [kind |-> kind, paths |-> <<path>>]

\* a rename seen on both sides: EventKind::Modify(ModifyKind::Name(_)) with the
\* old path and the new path
RenameEvent(from, to) == [kind |-> "Modify(Name)", paths |-> <<from, to>>]

\* NoteEventPayload; the modification time is the file's rank among the notes,
\* oldest first
NoteEventPayload(path, title, modified) ==
    [path |-> path, name |-> <<path.stem, path.ext>>, title |-> title,
     modified |-> modified]

Emitted(name, payload) == [name |-> name, payload |-> payload]

\* get_note_metadata: None unless the path has the md extension and
\* fs::metadata succeeds (the file exists)
get_note_metadata(path, existing) ==
    IF path.ext # "md" THEN None
    ELSE IF path \notin DOMAIN existing THEN None
    ELSE Some(NoteEventPayload(path, Some(path.stem), Some(existing[path])))

\* notes.sort_by(|a, b| b.modified.unwrap_or(0).cmp(&a.modified.unwrap_or(0)))
RECURSIVE sort_by_modified(_)
sort_by_modified(notes) ==
    IF notes = {} THEN <<>>
    ELSE LET then_rest(newest) == <<newest>> \o sort_by_modified(notes \ {newest})
         IN then_rest(CHOOSE n \in notes :
                        \A m \in notes : Unwrap(m.modified) <= Unwrap(n.modified))

\* emit_note_list_updated: the notes directory rescanned, one note:list-updated
\* with a payload for every entry get_note_metadata accepts, the most recently
\* modified first
emit_note_list_updated(existing) ==
    <<Emitted("note:list-updated",
              sort_by_modified(
                 {Unwrap(get_note_metadata(p, existing)) :
                    p \in {q \in DOMAIN existing :
                              InNotesDir(q) /\ IsSome(get_note_metadata(q, existing))}}))>>

\* The body of the callback's inner loop for one path of one event: what it
\* emits and which of the two flags it raises
classify(kind, path, existing) ==
    LET nothing == [emits |-> <<>>, note_list |-> FALSE, todos |-> FALSE]
        meta == get_note_metadata(path, existing)
    IN IF path = todo_file
       THEN [nothing EXCEPT !.todos = todo_changed_kind(kind)]
       ELSE IF ~is_markdown(path) THEN nothing
       ELSE IF InNotesDir(path)
       THEN IF IsCreate(kind)
            THEN IF IsSome(meta)
                 THEN [emits |-> <<Emitted("note:created", Unwrap(meta))>>,
                       note_list |-> TRUE, todos |-> FALSE]
                 ELSE nothing
            ELSE IF IsModify(kind)
            THEN IF IsSome(meta)
                 THEN [emits |-> <<Emitted("note:updated", Unwrap(meta))>>,
                       note_list |-> TRUE, todos |-> FALSE]
                 ELSE nothing
            ELSE IF IsRemove(kind)
            THEN [emits |-> <<Emitted("note:deleted",
                                      NoteEventPayload(path, None, None))>>,
                  note_list |-> TRUE, todos |-> FALSE]
            ELSE nothing
       ELSE IF InPromptsDir(path) THEN nothing
       ELSE nothing

\* the two nested loops of the callback: every path of every event, in order
RECURSIVE classify_paths(_, _, _)
classify_paths(kind, paths, existing) ==
    IF paths = <<>> THEN [emits |-> <<>>, note_list |-> FALSE, todos |-> FALSE]
    ELSE LET first == classify(kind, Head(paths), existing)
             rest == classify_paths(kind, Tail(paths), existing)
         IN [emits |-> first.emits \o rest.emits,
             note_list |-> first.note_list \/ rest.note_list,
             todos |-> first.todos \/ rest.todos]

RECURSIVE classify_events(_, _)
classify_events(events, existing) ==
    IF events = <<>> THEN [emits |-> <<>>, note_list |-> FALSE, todos |-> FALSE]
    ELSE LET first == classify_paths(Head(events).kind, Head(events).paths, existing)
             rest == classify_events(Tail(events), existing)
         IN [emits |-> first.emits \o rest.emits,
             note_list |-> first.note_list \/ rest.note_list,
             todos |-> first.todos \/ rest.todos]

\* note:list-updated emitted for every note event instead of once per batch
update_list_twice(should_update_list, existing) ==
    IF should_update_list
    THEN emit_note_list_updated(existing) \o emit_note_list_updated(existing)
    ELSE <<>>

\* after the loops: if should_update_list, one note:list-updated
update_list(should_update_list, existing) ==
    IF should_update_list THEN emit_note_list_updated(existing) ELSE <<>>

\* todos_changed emitted inside the loop as well as after it
update_todos_twice(should_update_todos) ==
    IF should_update_todos
    THEN <<Emitted("todos_changed", {}), Emitted("todos_changed", {})>>
    ELSE <<>>

\* after the loops: if should_update_todos, one todos_changed
update_todos(should_update_todos) ==
    IF should_update_todos THEN <<Emitted("todos_changed", {})>> ELSE <<>>

\* a callback that saves todo.txt again whenever todo.txt changed
callback_writes_todo(events, existing) ==
    IF classify_events(events, existing).todos THEN <<todo_file>> ELSE <<>>

\* the files the callback writes for a batch: none; it calls fs::metadata,
\* fs::read_dir and app.emit, and nothing else
callback_writes(events, existing) == <<>>

\* the callback on Ok(events): everything it emits, in order
callback(events, existing) ==
    LET flags == classify_events(events, existing)
    IN flags.emits \o update_list(flags.note_list, existing)
       \o update_todos(flags.todos)

\* The debouncer (notify_debouncer_full, 500 ms): the raw events of one window
\* as one batch, with one event for every distinct (kind, path) pair; of a
\* later event only the paths not yet reported with its kind are kept
RECURSIVE coalesce(_)
coalesce(raw) ==
    IF raw = <<>> THEN <<>>
    ELSE LET add(earlier, e) ==
                 LET fresh(paths) ==
                         IF paths = <<>> THEN earlier
                         ELSE Append(earlier, [kind |-> e.kind, paths |-> paths])
                 IN fresh(SelectSeq(e.paths,
                             LAMBDA p : ~\E i \in 1..Len(earlier) :
                                           /\ earlier[i].kind = e.kind
                                           /\ \E k \in 1..Len(earlier[i].paths) :
                                                 earlier[i].paths[k] = p))
         IN add(coalesce(SubSeq(raw, 1, Len(raw) - 1)), raw[Len(raw)])

\* ------------------------------------------------------------------------
\* The watched vault: file changes, debounce windows, the callback (SpecWatcher)
\* ------------------------------------------------------------------------
MaxBurst == 2

\* The files that change: two notes, a file in the notes directory that is not
\* a note, todo.txt, a markdown file at the vault root
WatchedPaths ==
    {Path("notes", "n", "md"), Path("notes", "m", "md"), Path("notes", "a", "txt"),
     todo_file, Path("vault", "readme", "md")}

\* The file system under the watcher: a file is a note when it lies in the notes
\* directory with the md extension, and the notes are ranked by modification
\* time (1 the oldest); the times of the other files are never read
FsWithout(fs, path) ==
    [q \in DOMAIN fs \ {path} |->
        IF path \in DOMAIN fs /\ fs[path] > 0 /\ fs[q] > fs[path]
        THEN fs[q] - 1 ELSE fs[q]]

FsTouched(fs, path) ==
    LET newest(rest) ==
            [q \in DOMAIN rest \cup {path} |->
                IF q # path THEN rest[q]
                ELSE IF InNotesDir(path) /\ path.ext = "md"
                THEN Cardinality({r \in DOMAIN rest : rest[r] > 0}) + 1
                ELSE 0]
    IN newest(FsWithout(fs, path))

\* rename(2) keeps the modification time
FsMoved(fs, from, to) ==
    IF InNotesDir(to) /\ to.ext = "md"
    THEN [q \in (DOMAIN fs \ {from}) \cup {to} |-> IF q = to THEN fs[from] ELSE fs[q]]
    ELSE LET others(rest) == [q \in DOMAIN rest \cup {to} |-> IF q = to THEN 0 ELSE rest[q]]
         IN others(FsWithout(fs, from))

\* a raw event arrives: it joins the window that is open, and what the last
\* batch emitted has been delivered
Arrives(event) ==
    /\ Len(pending) < MaxBurst
    /\ pending' = Append(pending, event)
    /\ window' = <<>>
    /\ batch' = <<>>
    /\ emitted' = <<>>
    /\ lastList' = lastList

FsCreate ==
    \E path \in WatchedPaths \ DOMAIN onDisk :
        /\ onDisk' = FsTouched(onDisk, path)
        /\ Arrives(RawEvent("Create", path))
        /\ UNCHANGED <<codecVars, vaultVars, startVars>>

FsWrite ==
    \E path \in DOMAIN onDisk :
        /\ onDisk' = FsTouched(onDisk, path)
        /\ Arrives(RawEvent("Modify(Data)", path))
        /\ UNCHANGED <<codecVars, vaultVars, startVars>>

FsSetAttributes ==
    \E path \in DOMAIN onDisk :
        /\ onDisk' = onDisk
        /\ Arrives(RawEvent("Modify(Metadata)", path))
        /\ UNCHANGED <<codecVars, vaultVars, startVars>>

FsRead ==
    \E path \in DOMAIN onDisk :
        /\ onDisk' = onDisk
        /\ Arrives(RawEvent("Access", path))
        /\ UNCHANGED <<codecVars, vaultVars, startVars>>

FsRemove ==
    \E path \in DOMAIN onDisk :
        /\ onDisk' = FsWithout(onDisk, path)
        /\ Arrives(RawEvent("Remove", path))
        /\ UNCHANGED <<codecVars, vaultVars, startVars>>

\* a note is renamed inside the notes directory
FsRename ==
    \E from \in {p \in DOMAIN onDisk : InNotesDir(p) /\ p.ext = "md"} :
        \E to \in {p \in WatchedPaths \ DOMAIN onDisk : InNotesDir(p)} :
            /\ onDisk' = FsMoved(onDisk, from, to)
            /\ Arrives(RenameEvent(from, to))
            /\ UNCHANGED <<codecVars, vaultVars, startVars>>

\* what the listeners hold after a batch: the payload of its note:list-updated
\* if it emitted one, else what they held before
list_after(emits, before) ==
    IF \E i \in 1..Len(emits) : emits[i].name = "note:list-updated"
    THEN Some(emits[CHOOSE i \in 1..Len(emits) :
                       /\ emits[i].name = "note:list-updated"
                       /\ \A j \in (i + 1)..Len(emits) :
                             emits[j].name # "note:list-updated"].payload)
    ELSE before

\* the files written one after the other, and the raw events the writes raise
RECURSIVE FsTouchedAll(_, _)
FsTouchedAll(fs, paths) ==
    IF paths = <<>> THEN fs ELSE FsTouchedAll(FsTouched(fs, Head(paths)), Tail(paths))

\* the debounce window closes: its events, coalesced, are handed to the
\* callback; what the callback writes is seen by the watcher like any write
Debounce ==
    /\ pending # <<>>
    /\ window' = pending
    /\ batch' = coalesce(pending)
    /\ emitted' = callback(coalesce(pending), onDisk)
    /\ lastList' = list_after(callback(coalesce(pending), onDisk), lastList)
    /\ \E written \in {callback_writes(coalesce(pending), onDisk)} :
          /\ onDisk' = FsTouchedAll(onDisk, written)
          /\ pending' = [i \in 1..Len(written) |-> RawEvent("Modify(Data)", written[i])]
    /\ UNCHANGED <<codecVars, vaultVars, startVars>>

InitWatcher == WatcherIdle /\ CodecIdle /\ VaultFresh /\ StartIdle

NextWatcher ==
    \/ FsCreate
    \/ FsWrite
    \/ FsSetAttributes
    \/ FsRead
    \/ FsRemove
    \/ FsRename
    \/ Debounce

SpecWatcher == InitWatcher /\ [][NextWatcher]_vars

\* ------------------------------------------------------------------------
\* lib.rs, watcher.rs: starting the watcher of a vault (SpecStart)
\* ------------------------------------------------------------------------
MaxStarts == 2

Vaults == {"v1", "v2"}

\* vault.join("notes"), vault.join("prompts")
notes_dir(vault) == <<vault, "notes">>
prompts_dir(vault) == <<vault, "prompts">>

\* the Debouncer a call of setup_watcher builds, and the directories it watches
Debouncer(vault, call) ==
    [vault |-> vault, call |-> call,
     watched |-> {<<vault, "">>, notes_dir(vault), prompts_dir(vault)}]

\* the prompts directory created before the notes directory is looked for
setup_watcher_prompts_first(vault, call, existing) ==
    IF notes_dir(vault) \notin existing
    THEN [result |-> Err("Notes directory does not exist"),
          dirs |-> existing \cup {prompts_dir(vault)}]
    ELSE [result |-> Ok(Debouncer(vault, call)),
          dirs |-> existing \cup {prompts_dir(vault)}]

\* setup_watcher: what it returns and the directories that exist afterwards
setup_watcher(vault, call, existing) ==
    IF notes_dir(vault) \notin existing
    THEN [result |-> Err("Notes directory does not exist"), dirs |-> existing]
    ELSE IF prompts_dir(vault) \notin existing
    THEN [result |-> Ok(Debouncer(vault, call)),
          dirs |-> existing \cup {prompts_dir(vault)}]
    ELSE [result |-> Ok(Debouncer(vault, call)), dirs |-> existing]

\* app.manage(value) for a type of state: the first value of the type is kept
\* for the life of the application; a later one is handed back as not stored
\* (false) and dropped
manage(state, value) ==
    IF IsSome(state) THEN [state |-> state, stored |-> FALSE]
    ELSE [state |-> Some(value), stored |-> TRUE]

\* one call of start_vault_watcher as the log keeps it
Started(vault, result, debouncer, created) ==
    [vault |-> vault, result |-> result, debouncer |-> debouncer, created |-> created]

start_vault_watcher ==
    \E vault \in Vaults :
        \E outcome \in {setup_watcher(vault, Len(started) + 1, dirs)} :
            /\ Len(started) < MaxStarts
            /\ dirs' = outcome.dirs
            /\ IF outcome.result.ok
               THEN \E kept \in {manage(managed, outcome.result.value)} :
                       /\ managed' = kept.state
                       /\ watchers' = IF kept.stored
                                      THEN watchers \cup {outcome.result.value}
                                      ELSE watchers
                       /\ started' = Append(started,
                                            Started(vault, Ok("()"),
                                                    Some(outcome.result.value),
                                                    outcome.dirs \ dirs))
               ELSE /\ UNCHANGED <<managed, watchers>>
                    /\ started' = Append(started,
                                         Started(vault, outcome.result, None,
                                                 outcome.dirs \ dirs))
            /\ UNCHANGED <<codecVars, vaultVars, watcherVars>>

\* the user makes the notes or the prompts directory of a vault
MakeDir ==
    \E dir \in {notes_dir(v) : v \in Vaults} \cup {prompts_dir(v) : v \in Vaults} :
        /\ dir \notin dirs
        /\ dirs' = dirs \cup {dir}
        /\ UNCHANGED <<managed, watchers, started, codecVars, vaultVars, watcherVars>>

InitStart == StartIdle /\ WatcherIdle /\ CodecIdle /\ VaultFresh

NextStart ==
    \/ start_vault_watcher
    \/ MakeDir

SpecStart == InitStart /\ [][NextStart]_vars

\* ------------------------------------------------------------------------
\* The codec's round trip, applied to bounded item collections (SpecCodec)
\* ------------------------------------------------------------------------
MaxItems == 2

Date1 == <<"2", "0", "2", "4", "-", "0", "1", "-", "0", "1">>
Date2 == <<"2", "0", "2", "4", "-", "0", "1", "-", "1", "0">>

\* Titles: one word, a word that starts with the letter x, two words
CodecTitles == {<<"a">>, <<"x", "a">>, <<"a", " ", "b">>}

\* The metadata an item carries: none, a due date only, a creation date only,
\* or priority, creation date, one project, one context and a due date
CodecShapes == {"bare", "due", "created", "full"}

CodecItem(title, completed, shape) ==
    TodoItem(0, title, completed,
             IF shape \in {"due", "full"} THEN Some(Date2) ELSE None,
             IF shape = "full" THEN Some(<<"A">>) ELSE None,
             IF shape = "full" THEN <<<<"p">>>> ELSE <<>>,
             IF shape = "full" THEN <<<<"c">>>> ELSE <<>>,
             IF shape \in {"created", "full"} THEN Some(Date1) ELSE None)

CodecPool ==
    {CodecItem(t, c, sh) : t \in CodecTitles, c \in BOOLEAN, sh \in CodecShapes}

\* a collection's items numbered by position, as every command of lib.rs
\* numbers them
Renumber(items) == [i \in 1..Len(items) |-> [items[i] EXCEPT !.id = i]]

CodecCollections ==
    UNION {{Renumber(c) : c \in [1..n -> CodecPool]} : n \in 0..MaxItems}

\* two collections equal in everything but the ids
SameButIds(a, b) == Renumber(a) = Renumber(b)

InitCodec ==
    /\ cItems \in CodecCollections
    /\ cText = <<>>
    /\ cParsed = <<>>
    /\ cText2 = <<>>
    /\ cPc = "items"
    /\ VaultFresh
    /\ WatcherIdle
    /\ StartIdle

\* text = serialize_todos(items)
CodecSerialize ==
    /\ cPc = "items"
    /\ cText' = serialize_todos(cItems)
    /\ cPc' = "serialized"
    /\ UNCHANGED <<cItems, cParsed, cText2, vaultVars, watcherVars, startVars>>

\* parse_todos(text)
CodecParse ==
    /\ cPc = "serialized"
    /\ cParsed' = parse_todos(cText)
    /\ cPc' = "parsed"
    /\ UNCHANGED <<cItems, cText, cText2, vaultVars, watcherVars, startVars>>

\* serialize_todos(parse_todos(text))
CodecReserialize ==
    /\ cPc = "parsed"
    /\ cText2' = serialize_todos(cParsed)
    /\ cPc' = "reserialized"
    /\ UNCHANGED <<cItems, cText, cParsed, vaultVars, watcherVars, startVars>>

NextCodec == CodecSerialize \/ CodecParse \/ CodecReserialize

SpecCodec == InitCodec /\ [][NextCodec]_vars

\* ------------------------------------------------------------------------
\* parse_todos on texts written by hand (SpecParse)
\* ------------------------------------------------------------------------
MaxLines == 3

\* Lines: blank, blanks only, a word, the completion marker alone, a project
\* tag alone, an unclosed priority, a due: key without a value
ParseLinePool ==
    {<<>>, <<" ">>, <<"a">>, <<"x">>, <<"+", "p">>, <<"(", "A">>,
     <<"d", "u", "e", ":">>}

\* a line of the form "(P) created title-words +project.. @context.. due:D"
FormLine(priority, created, words, projects, contexts, due) ==
    Join(<<<<"(", priority, ")">>, created>> \o words
         \o PrefixAll(projects, "+") \o PrefixAll(contexts, "@")
         \o <<<<"d", "u", "e", ":">> \o due>>,
         <<" ">>)

FormPriorities == {"A", "B"}
FormWords == {<<<<"a">>>>, <<<<"a">>, <<"b">>>>}
FormProjects == {<<>>, <<<<"p">>>>, <<<<"p">>, <<"q">>>>, <<<<"p">>, <<"p", "q">>>>}
FormContexts == {<<>>, <<<<"c">>>>, <<<<"d">>, <<"c">>>>}

FormLines ==
    {FormLine(pr, Date1, w, ps, cs, Date2) :
        pr \in FormPriorities, w \in FormWords, ps \in FormProjects,
        cs \in FormContexts}

\* Lines with a parenthesised letter: at the start, after the completion
\* marker, at the start and again later, later only, lower case, two letters
PriorityLines ==
    {<<"(", "A", ")", " ", "a">>,
     <<"x", " ", "(", "A", ")", " ", "a">>,
     <<"(", "A", ")", " ", "a", " ", "(", "A", ")">>,
     <<"(", "A", ")", " ", "a", " ", "(", "B", ")">>,
     <<"a", " ", "(", "A", ")">>,
     <<"(", "a", ")", " ", "b">>,
     <<"(", "A", "B", ")", " ", "a">>}

\* the texts: up to MaxLines lines of the pool, each ended by a newline or the
\* last one not, and the lines of the form and the priority lines alone
ParseTexts ==
    UNION {{Join(ls, <<"\n">>) \o end : ls \in [1..n -> ParseLinePool],
                                        end \in {<<>>, <<"\n">>}} : n \in 1..MaxLines}
    \cup FormLines \cup PriorityLines

InitParse ==
    /\ cText \in ParseTexts
    /\ cItems = <<>>
    /\ cParsed = <<>>
    /\ cText2 = <<>>
    /\ cPc = "text"
    /\ VaultFresh
    /\ WatcherIdle
    /\ StartIdle

\* parse_todos(text) on a text as it is
ParseText ==
    /\ cPc = "text"
    /\ cParsed' = parse_todos(cText)
    /\ cPc' = "text-parsed"
    /\ UNCHANGED <<cItems, cText, cText2, vaultVars, watcherVars, startVars>>

NextParse == ParseText

SpecParse == InitParse /\ [][NextParse]_vars

\* ------------------------------------------------------------------------
\* calculate_streak on a metadata file written by any hand (SpecStreak)
\* ------------------------------------------------------------------------
MaxBack == 2

\* today: the last day of a month, the first day of a month, the first day of
\* a year
StreakDays == {StartDay, StartDay + 1, 365 * 57}

\* completions_by_day: for each of today and the MaxBack days before it, as
\* get_current_date names them, no entry, an entry of 0 or an entry of 1
StreakMaps(days) ==
    UNION {[{get_current_date(days - i) : i \in back} -> {0, 1}] :
              back \in SUBSET (0..MaxBack)}

InitStreak ==
    /\ nowDays \in StreakDays
    /\ \E by_day \in StreakMaps(nowDays) :
          metaFile = MetaHolding([DefaultMetadata EXCEPT
                                    !.stats.completions_by_day = by_day])
    /\ todoFile = None
    /\ bouldyDir = TRUE
    /\ archivesDir = FALSE
    /\ archives = [k \in {} |-> <<>>]
    /\ failures = 0
    /\ last = NoCall
    /\ running = NoRace
    /\ CodecIdle
    /\ WatcherIdle
    /\ StartIdle

\* calculate_streak(&metadata.stats.completions_by_day) on that day
StreakCall ==
    /\ last = NoCall
    /\ last' = Response("calculate_streak",
                        Ok(calculate_streak(metaFile.data.stats.completions_by_day,
                                            nowDays)),
                        FALSE)
    /\ UNCHANGED <<todoFile, metaFile, bouldyDir, archivesDir, archives, nowDays,
                   failures, running, codecVars, watcherVars, startVars>>

NextStreak == StreakCall

SpecStreak == InitStreak /\ [][NextStreak]_vars

\* ------------------------------------------------------------------------
\* lib.rs: the commands that edit one item or move one (SpecEdit)
\* ------------------------------------------------------------------------
\* update_todo, update_todo_due_date, update_todo_metadata: the first item
\* with the id has the fields of the request assigned, the rest is kept
edit_outcome(disk, id, edit, failing) ==
    LET changed(todo) ==
            CASE edit.op = "update_todo" -> [todo EXCEPT !.title = edit.title]
              [] edit.op = "update_todo_due_date" ->
                     [todo EXCEPT !.due_date = edit.due_date]
              [] edit.op = "update_todo_metadata" ->
                     [todo EXCEPT !.priority = edit.priority,
                                  !.projects = edit.projects,
                                  !.contexts = edit.contexts]
        edited(todos_list, at) ==
            IF at = 0 THEN Outcome(disk, Err("Todo not found"), None)
            ELSE save_outcome(disk, [todos_list EXCEPT ![at] = changed(todos_list[at])],
                              id, failing)
        found(todos_list) == edited(todos_list, find_todo(todos_list, id))
    IN found(load_todos(disk.todoFile))

\* Vec::remove(old_index) then Vec::insert(new_index, todo), indices from 0
Moved(todos_list, old_index, new_index) ==
    LET without == [i \in 1..(Len(todos_list) - 1) |->
                       IF i <= old_index THEN todos_list[i] ELSE todos_list[i + 1]]
    IN [i \in 1..Len(todos_list) |->
           IF i <= new_index THEN without[i]
           ELSE IF i = new_index + 1 THEN todos_list[old_index + 1]
           ELSE without[i - 1]]

\* todos::reorder_todo: an index past the end is an error, equal indices
\* return before anything is written
reorder_todo_outcome(disk, old_index, new_index, failing) ==
    LET moved(todos_list) ==
            IF old_index >= Len(todos_list) \/ new_index >= Len(todos_list)
            THEN Outcome(disk, Err("Invalid index for reordering"), None)
            ELSE IF old_index = new_index
            THEN Outcome(disk, Ok(0), None)
            ELSE save_outcome(disk, Moved(todos_list, old_index, new_index), 0, failing)
    IN moved(load_todos(disk.todoFile))

\* the live files an editing command finds: "a", "a" and "x b +p",
\* "(A) a +p @c due:2024-01-10" and "b", "2024-01-01 a" and "b" and "c",
\* and the hand-written one
EditFiles ==
    {Some(HandWritten),
     Some(<<"a", "\n">>),
     Some(<<"a", "\n", "x", " ", "b", " ", "+", "p", "\n">>),
     Some(<<"(", "A", ")", " ", "a", " ", "+", "p", " ", "@", "c", " ", "d", "u", "e", ":">> \o Date2
              \o <<"\n", "b", "\n">>),
     Some(Date1 \o <<" ", "a", "\n", "b", "\n", "c", "\n">>)}

EditTitles == {<<>>, <<"c">>}
EditDueDates == {None, Some(Date2)}
EditMetadata ==
    {[priority |-> None, projects |-> <<>>, contexts |-> <<>>],
     [priority |-> Some(<<"A">>), projects |-> <<<<"p">>>>, contexts |-> <<<<"c">>>>]}

InitEdit ==
    /\ todoFile \in EditFiles
    /\ metaFile = MetaMissing
    /\ bouldyDir = FALSE
    /\ archivesDir = FALSE
    /\ archives = [k \in {} |-> <<>>]
    /\ nowDays = StartDay
    /\ failures = 0
    /\ last = NoCall
    /\ running = NoRace
    /\ CodecIdle
    /\ WatcherIdle
    /\ StartIdle

\* one command of the frontend on the live file it finds
EditCall(edit) ==
    /\ last = NoCall
    /\ \E id \in 1..(Len(load_todos(todoFile)) + 1), failing \in WriteFailures(save_todos_steps) :
        \E outcome \in {edit_outcome(Disk, id, edit, failing)} :
        /\ Fails(outcome, failing)
        /\ Commit(outcome)
        /\ last' = Response(edit.op, outcome.result, TRUE)
        /\ UNCHANGED <<nowDays, running, codecVars, watcherVars, startVars>>

toggle_first == last = NoCall /\ toggle_todo

update_todo ==
    \E title \in EditTitles : EditCall([op |-> "update_todo", title |-> title])

update_todo_due_date ==
    \E due_date \in EditDueDates :
        EditCall([op |-> "update_todo_due_date", due_date |-> due_date])

update_todo_metadata ==
    \E metadata \in EditMetadata :
        EditCall([op |-> "update_todo_metadata", priority |-> metadata.priority,
                  projects |-> metadata.projects, contexts |-> metadata.contexts])

reorder_todo ==
    /\ last = NoCall
    /\ \E old_index \in 0..Len(load_todos(todoFile)),
       new_index \in 0..Len(load_todos(todoFile)),
       failing \in WriteFailures(save_todos_steps) :
        \E outcome \in {reorder_todo_outcome(Disk, old_index, new_index, failing)} :
        /\ Fails(outcome, failing)
        /\ Commit(outcome)
        /\ last' = [Response("reorder_todo", outcome.result, TRUE)
                       EXCEPT !.args = <<old_index, new_index>>]
        /\ UNCHANGED <<nowDays, running, codecVars, watcherVars, startVars>>

NextEdit ==
    \/ update_todo
    \/ toggle_first
    \/ update_todo_due_date
    \/ update_todo_metadata
    \/ reorder_todo

SpecEdit == InitEdit /\ [][NextEdit]_vars

\* ------------------------------------------------------------------------
\* lib.rs: two todo commands at once (SpecRace)
\* ------------------------------------------------------------------------
\* Commands are `async fn`: the runtime runs two invocations side by side, and
\* each is load_todos, a change in memory, save_todos, with nothing held
\* between the read and the write.
RaceFiles ==
    {Some(<<"a", "\n">>),
     Some(<<"a", "\n", "b", "\n">>),
     Some(<<"x", " ", "a", "\n", "b", "\n">>)}

RaceTitles == {<<"c">>, <<"d">>}

\* chrono::Local::now().format("%Y-%m-%d") on the day of the run
CreatedToday == Date1

InitRace ==
    /\ todoFile \in RaceFiles
    /\ running = [NoRace EXCEPT !.found = todoFile]
    /\ metaFile = MetaMissing
    /\ bouldyDir = FALSE
    /\ archivesDir = FALSE
    /\ archives = [k \in {} |-> <<>>]
    /\ nowDays = StartDay
    /\ failures = 0
    /\ last = NoCall
    /\ CodecIdle
    /\ WatcherIdle
    /\ StartIdle

\* create_todo up to todos_list.push(new_todo)
create_todo_load ==
    /\ running.create_todo.pc = "idle"
    /\ \E title \in RaceTitles :
          \E todos_list \in {load_todos(todoFile)} :
          running' = [running EXCEPT !.create_todo =
                        [pc |-> "loaded",
                         todos_list |->
                             Append(todos_list,
                                    TodoItem(Len(todos_list) + 1, title, FALSE, None, None,
                                             <<>>, <<>>, Some(CreatedToday))),
                         result |-> Ok(Len(todos_list) + 1)]]
    /\ UNCHANGED <<todoFile, metaFile, bouldyDir, archivesDir, archives, nowDays,
                   failures, last, codecVars, watcherVars, startVars>>

\* create_todo from save_todos on
create_todo_save ==
    /\ running.create_todo.pc = "loaded"
    /\ \E failing \in WriteFailures(save_todos_steps) :
          \E outcome \in {save_outcome(Disk, running.create_todo.todos_list,
                                       running.create_todo.result.value, failing)} :
          /\ Fails(outcome, failing)
          /\ Commit(outcome)
          /\ running' = [running EXCEPT !.create_todo.pc = "done",
                                        !.create_todo.result = outcome.result]
          /\ last' = Response("create_todo", outcome.result, TRUE)
    /\ UNCHANGED <<nowDays, codecVars, watcherVars, startVars>>

\* toggle_todo up to the flip of the flag, asked for an item the file held
\* before either command (or for id 0, which no item has); an id that is not
\* found returns
toggle_todo_load ==
    /\ running.toggle_todo.pc = "idle"
    /\ \E id \in 0..Len(load_todos(running.found)) :
          \E todos_list \in {load_todos(todoFile)}, at \in {find_todo(load_todos(todoFile), id)} :
          IF at = 0
          THEN /\ running' = [running EXCEPT !.toggle_todo =
                                 [pc |-> "done", todos_list |-> todos_list,
                                  result |-> Err("Todo not found")]]
               /\ last' = Response("toggle_todo", Err("Todo not found"), TRUE)
          ELSE /\ running' = [running EXCEPT !.toggle_todo =
                                 [pc |-> "loaded",
                                  todos_list |->
                                      [todos_list EXCEPT
                                         ![at].completed = ~todos_list[at].completed],
                                  result |-> Ok(id)]]
               /\ UNCHANGED last
    /\ UNCHANGED <<todoFile, metaFile, bouldyDir, archivesDir, archives, nowDays,
                   failures, codecVars, watcherVars, startVars>>

\* toggle_todo from save_todos on
toggle_todo_save ==
    /\ running.toggle_todo.pc = "loaded"
    /\ \E failing \in WriteFailures(save_todos_steps) :
          \E outcome \in {save_outcome(Disk, running.toggle_todo.todos_list,
                                       running.toggle_todo.result.value, failing)} :
          /\ Fails(outcome, failing)
          /\ Commit(outcome)
          /\ running' = [running EXCEPT !.toggle_todo.pc = "done",
                                        !.toggle_todo.result = outcome.result]
          /\ last' = Response("toggle_todo", outcome.result, TRUE)
    /\ UNCHANGED <<nowDays, codecVars, watcherVars, startVars>>

NextRace ==
    \/ create_todo_load
    \/ create_todo_save
    \/ toggle_todo_load
    \/ toggle_todo_save

SpecRace == InitRace /\ [][NextRace]_vars

\* C1: for every item collection, text = serialize_todos(items) and then
\* serialize_todos(parse_todos(text)) is byte-identical to text.
C1_RoundTripText == cPc = "reserialized" => cText2 = cText

\* C2: parse_todos(serialize_todos(items)) has the same number of items in the
\* same order, each with the title, completed flag, created_date, due_date,
\* priority, projects and contexts of the original (ids excepted).
C2_RoundTripItems == cPc \in {"parsed", "reserialized"} => SameButIds(cParsed, cItems)


\* ------------------------------------------------------------------------
\* The archive engine (Spec)
\* ------------------------------------------------------------------------
ArchiveCalled == last'.op = "archive_completed_todos"

Completed(file) == SelectSeq(load_todos(file), IsCompleted)
Incomplete(file) == SelectSeq(load_todos(file), IsIncomplete)

\* the statistics the metadata file holds (zeros when there is no file)
PersistedStats(file) == file.data.stats

DiskUnchanged == UNCHANGED <<todoFile, metaFile, bouldyDir, archivesDir, archives>>

\* C3 as stated: archive_completed_todos on a vault whose live file has no
\* completed item returns 0 and writes nothing: the live file, the metadata
\* file and every archive file are unchanged and no directory is created.
C3_NoCompletedReturnsZero ==
    [][(ArchiveCalled /\ Completed(todoFile) = <<>>)
         => (last'.result = Ok(0) /\ DiskUnchanged)]_vars

\* C3 as amended: with no completed item in the live file the call writes
\* nothing and creates no directory; it returns 0 when the metadata file is
\* missing or parses, and the metadata error when the file does not parse.
C3_NoCompletedWritesNothing ==
    [][(ArchiveCalled /\ Completed(todoFile) = <<>>)
         => /\ DiskUnchanged
            /\ last'.result = IF metaFile.state = "corrupt"
                              THEN Err("Failed to parse metadata")
                              ELSE Ok(0)]_vars

\* an archive call that returned 0 on a live file with items, none completed,
\* in a vault where nothing was ever written to .bouldy
C3_Witness ==
    /\ last.op = "archive_completed_todos"
    /\ last.result = Ok(0)
    /\ load_todos(todoFile) # <<>>
    /\ Completed(todoFile) = <<>>
    /\ ~bouldyDir
    /\ metaFile = MetaMissing

\* C4: after a successful archive_completed_todos the live file holds exactly
\* the items that were incomplete before the call, in their order and with
\* their fields unchanged, and the count returned is the number of items that
\* were completed before the call.
C4_LiveFileKeepsIncomplete ==
    [][(ArchiveCalled /\ last'.result.ok)
         => /\ SameButIds(load_todos(todoFile'), Incomplete(todoFile))
            /\ last'.result.value = Len(Completed(todoFile))]_vars

\* the date `n` previous-day steps of calculate_streak before `date`
RECURSIVE DaysBefore(_, _)
DaysBefore(date, n) ==
    IF n = 0 THEN date ELSE Unwrap(prev_day(DaysBefore(date, n - 1)))

\* how many days in a row, ending the day before `date`, have completions
RunBefore(completions_by_day, date) ==
    CHOOSE n \in 0..Cardinality(DOMAIN completions_by_day) :
        /\ \A i \in 1..n : DaysBefore(date, i) \in DOMAIN completions_by_day
        /\ DaysBefore(date, n + 1) \notin DOMAIN completions_by_day

\* an archive call that wrote its statistics for k >= 1 completed items on a
\* day without completions
FirstArchiveOfDay ==
    /\ ArchiveCalled
    /\ Completed(todoFile) # <<>>
    /\ metaFile' # metaFile
    /\ get_current_date(nowDays)
         \notin DOMAIN PersistedStats(metaFile).completions_by_day

CountersBumped ==
    LET before == PersistedStats(metaFile)
        after == PersistedStats(metaFile')
        k == Len(Completed(todoFile))
        month == get_current_month(nowDays)
    IN /\ after.total_completed = before.total_completed + k
       /\ MapGet(after.completions_by_day, get_current_date(nowDays)) = k
       /\ MapGet(after.completions_by_month, month)
            = MapGet(before.completions_by_month, month) + k

\* C5 as stated: archiving k >= 1 completed items on a day with no prior
\* completions adds k to total_completed, sets completions_by_day[today] to k,
\* adds k to the month's counter and sets current_streak to 1.
C5_FirstArchiveStreakOne ==
    [][FirstArchiveOfDay
         => (CountersBumped /\ PersistedStats(metaFile').current_streak = 1)]_vars

\* C5 as amended: the counters as stated, and current_streak is 1 plus the
\* number of days in a row with completions that end on the previous day (the
\* day calculate_streak steps back to): 1 only when that day has none.
C5_FirstArchiveStreakRun ==
    [][FirstArchiveOfDay
         => /\ CountersBumped
            /\ PersistedStats(metaFile').current_streak
                 = 1 + RunBefore(PersistedStats(metaFile).completions_by_day,
                                 get_current_date(nowDays))]_vars

\* a successful first archive of the day on the day after a day with
\* completions: the streak is 2
C5_Witness ==
    /\ last.op = "archive_completed_todos"
    /\ last.result.ok
    /\ last.result.value >= 1
    /\ MapGet(PersistedStats(metaFile).completions_by_day, get_current_date(nowDays))
         = last.result.value
    /\ PersistedStats(metaFile).current_streak = 2

\* the statistics of the call are on disk / the archive file has its new lines
StatsWritten ==
    /\ bouldyDir'
    /\ PersistedStats(metaFile').total_completed
         = PersistedStats(metaFile).total_completed + Len(Completed(todoFile))
StatsNotWritten == metaFile' = metaFile
ArchiveWritten ==
    LET month == get_current_month(nowDays)
        old == IF month \in DOMAIN archives THEN archives[month] ELSE <<>>
    IN /\ archivesDir'
       /\ month \in DOMAIN archives'
       /\ Len(archives'[month]) > Len(old)
       /\ SubSeq(archives'[month], 1, Len(old)) = old
ArchiveNotWritten == archives' = archives

\* C6: when a write of archive_completed_todos fails the call returns an
\* error, never a count; what the steps before it wrote stays on disk (the
\* statistics, the archive file); the live file is untouched and still holds
\* the completed items.
C6_FailedWriteKeepsEarlierWrites ==
    [][(ArchiveCalled /\ failures' # failures)
         => /\ ~last'.result.ok
            /\ ~last'.todos_changed
            /\ todoFile' = todoFile
            /\ Completed(todoFile') # <<>>
            /\ last'.result.error \in
                 {StepError(archive_write_steps[i]) : i \in 1..Len(archive_write_steps)}
            /\ last'.result.error = "Failed to create .bouldy directory"
                 => (DiskUnchanged)
            /\ last'.result.error = "Failed to write metadata"
                 => (StatsNotWritten /\ ArchiveNotWritten /\ bouldyDir')
            /\ last'.result.error = "Failed to create archives directory"
                 => (StatsWritten /\ ArchiveNotWritten /\ archivesDir' = archivesDir)
            /\ last'.result.error = "Failed to write archive file"
                 => (StatsWritten /\ ArchiveNotWritten /\ archivesDir')
            /\ last'.result.error = "Failed to write todos"
                 => (StatsWritten /\ ArchiveWritten)]_vars

\* the rewrite of the live file failed: the statistics and the archive file
\* have the items, and the live file still has them too
C6_Witness ==
    /\ last.op = "archive_completed_todos"
    /\ last.result = Err("Failed to write todos")
    /\ PersistedStats(metaFile).total_completed >= 1
    /\ get_current_month(nowDays) \in DOMAIN archives
    /\ Completed(todoFile) # <<>>

\* C7: whatever the step (an archive that succeeds or fails, set_daily_limit,
\* an edit of the todos), the persisted total_completed and every persisted
\* completions_by_day and completions_by_month entry never decrease.
C7_CountersNeverDecrease ==
    [][LET before == PersistedStats(metaFile)
           after == PersistedStats(metaFile')
       IN /\ after.total_completed >= before.total_completed
          /\ \A day \in DOMAIN before.completions_by_day :
                /\ day \in DOMAIN after.completions_by_day
                /\ after.completions_by_day[day] >= before.completions_by_day[day]
          /\ \A month \in DOMAIN before.completions_by_month :
                /\ month \in DOMAIN after.completions_by_month
                /\ after.completions_by_month[month]
                     >= before.completions_by_month[month]]_vars

\* set_daily_limit succeeded on a vault with archived completions, and the
\* counters are still there
C7_Witness ==
    /\ last.op = "set_daily_limit"
    /\ last.result.ok
    /\ metaFile.state = "ok"
    /\ metaFile.data.daily_limit \in Limits
    /\ PersistedStats(metaFile).total_completed >= 1

\* ------------------------------------------------------------------------
\* The watcher (SpecWatcher)
\* ------------------------------------------------------------------------
\* a batch was handed to the callback and what it emitted is in `emitted`
BatchDone == window # <<>>

\* how many of the emitted events have the name
Named(name) == Len(SelectSeq(emitted, LAMBDA e : e.name = name))

NoteEvents == {"note:created", "note:updated", "note:deleted"}

\* the per-note notifications emitted for a path
NotesFor(path) ==
    Len(SelectSeq(emitted,
                  LAMBDA e : e.name \in NoteEvents /\ e.payload.path = path))

\* the distinct kinds of the window's raw events for a path
KindsFor(path) ==
    {window[i].kind :
       i \in {j \in 1..Len(window) :
                \E k \in 1..Len(window[j].paths) : window[j].paths[k] = path}}

OnlyEvents(kinds, paths) ==
    \A i \in 1..Len(window) :
        /\ window[i].kind \in kinds
        /\ \A k \in 1..Len(window[i].paths) : window[i].paths[k] \in paths

\* C8: N >= 1 modifications of one note inside one debounce window produce
\* exactly one note:updated and exactly one note:list-updated; and in any
\* window there is at most one notification for each distinct (kind, path).
C8_OneUpdatePerWindow ==
    BatchDone =>
        /\ \A kind \in {"Modify(Data)", "Modify(Metadata)"} :
             \A path \in {p \in WatchedPaths : InNotesDir(p) /\ p.ext = "md"} :
                OnlyEvents({kind}, {path})
                   => /\ Len(emitted) = 2
                      /\ emitted[1].name = "note:updated"
                      /\ emitted[1].payload.path = path
                      /\ emitted[2].name = "note:list-updated"
        /\ \A path \in WatchedPaths : NotesFor(path) <= Cardinality(KindsFor(path))
        /\ Named("note:list-updated") <= 1
        /\ Named("todos_changed") <= 1

\* a window of two or more writes of the note, answered by one note:updated
\* and one note:list-updated
C8_Witness ==
    /\ Len(window) >= 2
    /\ OnlyEvents({"Modify(Data)"}, {Path("notes", "n", "md")})
    /\ Named("note:updated") = 1
    /\ Named("note:list-updated") = 1

TodoFileEvents(kinds) ==
    {i \in 1..Len(window) :
       /\ \E k \in 1..Len(window[i].paths) : window[i].paths[k] = todo_file
       /\ window[i].kind \in kinds}

\* C9: events on todo.txt yield only todos_changed, never a note event nor
\* note:list-updated; a batch with any number of create or modify events on
\* todo.txt emits todos_changed exactly once (and a batch without one, never).
C9_TodoFileOnlyTodosChanged ==
    BatchDone =>
        /\ NotesFor(todo_file) = 0
        /\ OnlyEvents(EventKinds, {todo_file})
             => \A i \in 1..Len(emitted) : emitted[i].name = "todos_changed"
        /\ Named("todos_changed")
             = IF TodoFileEvents({"Create", "Modify(Data)", "Modify(Metadata)"}) # {}
               THEN 1 ELSE 0

\* a window with two or more create or modify events on todo.txt, answered by
\* todos_changed alone, once
C9_Witness ==
    /\ Cardinality(TodoFileEvents({"Create", "Modify(Data)", "Modify(Metadata)"})) >= 2
    /\ OnlyEvents(EventKinds, {todo_file})
    /\ Len(emitted) = 1
    /\ emitted[1].name = "todos_changed"

\* in the notes directory without the md extension, or outside the notes
\* directory, the prompts directory and todo.txt
Untracked(path) ==
    \/ InNotesDir(path) /\ path.ext # "md"
    \/ ~InNotesDir(path) /\ ~InPromptsDir(path) /\ path # todo_file

\* C10: an event on a path in the notes directory without the md extension,
\* or on a path outside every tracked root, produces no event at all: no note
\* event, no note:list-updated, no todos_changed.
C10_UntrackedPathsEmitNothing ==
    BatchDone =>
        /\ \A path \in {p \in WatchedPaths : Untracked(p)} : NotesFor(path) = 0
        /\ OnlyEvents(EventKinds, {p \in WatchedPaths : Untracked(p)}) => emitted = <<>>

\* a window with a change to a file of the notes directory that is not a note
\* and a change to a markdown file at the vault root, and nothing emitted
C10_Witness ==
    /\ \E i \in 1..Len(window) :
          /\ window[i].paths = <<Path("notes", "a", "txt")>>
          /\ window[i].kind \in {"Create", "Modify(Data)", "Remove"}
    /\ \E i \in 1..Len(window) :
          /\ window[i].paths = <<Path("vault", "readme", "md")>>
          /\ window[i].kind \in {"Create", "Modify(Data)", "Remove"}
    /\ OnlyEvents(EventKinds, {p \in WatchedPaths : Untracked(p)})
    /\ emitted = <<>>

\* the batch's events of a create, modify or remove kind that name a note path
NoteChanges ==
    {i \in 1..Len(batch) :
       /\ batch[i].kind \in {"Create", "Modify(Data)", "Modify(Metadata)",
                              "Modify(Name)", "Remove"}
       /\ \E k \in 1..Len(batch[i].paths) :
             InNotesDir(batch[i].paths[k]) /\ batch[i].paths[k].ext = "md"}

\* C11: for every processed batch, note:list-updated is broadcast exactly once
\* if the batch held at least one create, modify or remove event on a note
\* path, and not at all otherwise.
C11_ListUpdateIffNoteEvent ==
    BatchDone => Named("note:list-updated") = IF NoteChanges # {} THEN 1 ELSE 0

\* the .md files present in the notes root
NotesPresent == {p \in DOMAIN onDisk : InNotesDir(p) /\ p.ext = "md"}

\* C12: once changes have stopped and every pending batch has been processed,
\* the most recently broadcast note:list-updated payload lists exactly the .md
\* files then present in the notes root, the most recently modified first.
C12_LastListIsExact ==
    (pending = <<>> /\ IsSome(lastList)) =>
        /\ Len(Unwrap(lastList)) = Cardinality(NotesPresent)
        /\ {Unwrap(lastList)[i].path : i \in 1..Len(Unwrap(lastList))} = NotesPresent
        /\ \A i \in 1..Len(Unwrap(lastList)) :
              \A j \in (i + 1)..Len(Unwrap(lastList)) :
                 onDisk[Unwrap(lastList)[i].path] > onDisk[Unwrap(lastList)[j].path]

\* C13: processing a batch writes no tracked path and raises no event of its
\* own: the step that processes a batch leaves every file as it was and no
\* event pending, it emits a bounded number of events (at most one per path of
\* the batch, one note:list-updated, one todos_changed), and a batch is never
\* the cause of the next batch. One write is followed by finitely many
\* emitted events and then by quiescence.
C13_NoFeedbackLoop ==
    [][window' # <<>> =>
         /\ onDisk' = onDisk
         /\ pending' = <<>>
         /\ window = <<>>
         /\ Len(emitted') <= 2 * Len(batch') + 2]_vars

\* the batch of one write of todo.txt (what create_todo's save_todos raises) has
\* been processed: todos_changed once, nothing pending
C13_Witness ==
    /\ window = <<RawEvent("Modify(Data)", todo_file)>>
    /\ emitted = <<Emitted("todos_changed", {})>>
    /\ pending = <<>>

\* C14: every start_vault_watcher call that returns success leaves the watcher
\* handle it created owned by the application state for the rest of the
\* application's lifetime (it is never dropped), a second call included.
C14_StartedWatcherStaysOwned ==
    \A i \in 1..Len(started) :
        started[i].result.ok => Unwrap(started[i].debouncer) \in watchers

\* the step of a start_vault_watcher call, and the call
StartCalled == Len(started') = Len(started) + 1
TheStart == started'[Len(started')]

\* C15: setup_watcher fails at once with an error when the notes root does not
\* exist, creating no prompts root and starting no watch; when the notes root
\* exists and the prompts root is missing it creates the prompts root and
\* succeeds.
C15_NotesRootRequired ==
    [][StartCalled =>
         /\ notes_dir(TheStart.vault) \notin dirs
              => /\ ~TheStart.result.ok
                 /\ TheStart.result.error = "Notes directory does not exist"
                 /\ dirs' = dirs
                 /\ TheStart.debouncer = None
                 /\ watchers' = watchers
         /\ (notes_dir(TheStart.vault) \in dirs /\ prompts_dir(TheStart.vault) \notin dirs)
              => /\ TheStart.result.ok
                 /\ dirs' = dirs \cup {prompts_dir(TheStart.vault)}]_vars

\* a call that failed for the missing notes root and left the prompts root
\* missing, then, the notes root made, a call for the same vault that created
\* the prompts root and succeeded
C15_Witness ==
    /\ Len(started) = 2
    /\ started[1].vault = started[2].vault
    /\ ~started[1].result.ok
    /\ started[1].created = {}
    /\ started[2].result.ok
    /\ started[2].created = {prompts_dir(started[2].vault)}

\* the numbers of the text's lines that are not blank
NonBlankLines ==
    {i \in 1..Len(Lines(cText)) : Trim(Lines(cText)[i]) # <<>>}

\* C16: parse_todos returns no error for any text; no line is left out for
\* being unparseable: every non-blank line yields its item, in file order
\* (the k-th item is that of the k-th non-blank line, its id the line number).
C16_EveryNonBlankLineParsed ==
    cPc = "text-parsed" =>
        /\ Len(cParsed) = Cardinality(NonBlankLines)
        /\ {cParsed[k].id : k \in 1..Len(cParsed)} = NonBlankLines
        /\ \A k \in 1..Len(cParsed) :
              /\ \A j \in 1..(k - 1) : cParsed[j].id < cParsed[k].id
              /\ cParsed[k].id \in 1..Len(Lines(cText))
              /\ cParsed[k]
                    = parse_todo_line(Trim(Lines(cText)[cParsed[k].id]), cParsed[k].id)

\* a text of three lines, the second blank and the third a project tag alone
\* (an item with an empty title): two items, of lines 1 and 3
C16_Witness ==
    /\ cPc = "text-parsed"
    /\ cText = <<"a", "\n", " ", "\n", "+", "p">>
    /\ Len(cParsed) = 2
    /\ cParsed[1].id = 1
    /\ cParsed[2].id = 3
    /\ cParsed[2].title = <<>>

\* C19: a line "(P) YYYY-MM-DD title-words +proj.. @ctx.. due:D" with P one
\* uppercase letter and no leading x parses to priority P, created_date the
\* date, title the title words joined by single spaces, the projects and the
\* contexts in their order, due_date D, completed false.
C19_FullLineParses ==
    \A pr \in FormPriorities, w \in FormWords, ps \in FormProjects, cs \in FormContexts :
        (cPc = "text-parsed" /\ cText = FormLine(pr, Date1, w, ps, cs, Date2))
            => cParsed = <<TodoItem(1, Join(w, <<" ">>), FALSE, Some(Date2),
                                    Some(<<pr>>), ps, cs, Some(Date1))>>

\* C17: when the metadata file exists and does not parse, archive_completed_todos
\* and set_daily_limit return the parse error and write nothing: the live
\* file, the archive files and the corrupt metadata file are unchanged.
C17_CorruptMetadataWritesNothing ==
    [][(metaFile = MetaCorrupt
          /\ last'.op \in {"archive_completed_todos", "set_daily_limit"})
         => /\ last'.result = Err("Failed to parse metadata")
            /\ DiskUnchanged
            /\ failures' = failures]_vars

\* archive_completed_todos refused on a vault with a completed item and a
\* corrupt metadata file: the item is still in the live file, nothing archived
C17_Witness ==
    /\ last.op = "archive_completed_todos"
    /\ last.result = Err("Failed to parse metadata")
    /\ metaFile = MetaCorrupt
    /\ Completed(todoFile) # <<>>
    /\ DOMAIN archives = {}

\* what was added to the archive file of the month by the step
Appended(month) ==
    SubSeq(archives'[month],
           (IF month \in DOMAIN archives THEN Len(archives[month]) ELSE 0) + 1,
           Len(archives'[month]))

\* C18: archive files are append-only and partitioned by month. No step of any
\* operation removes an archive file or changes what one already holds; a
\* successful archive_completed_todos leaves the current month's file equal to
\* its previous content followed by one "[today] title" line for each
\* completed item, in the order of the live file, and no other month's file
\* changed.
C18_ArchivesAppendOnly ==
    [][/\ \A month \in DOMAIN archives :
             /\ month \in DOMAIN archives'
             /\ Len(archives'[month]) >= Len(archives[month])
             /\ SubSeq(archives'[month], 1, Len(archives[month])) = archives[month]
       /\ (ArchiveCalled /\ last'.result.ok /\ Completed(todoFile) # <<>>)
            => /\ DOMAIN archives' = DOMAIN archives \cup {get_current_month(nowDays)}
               /\ \A month \in DOMAIN archives \ {get_current_month(nowDays)} :
                     archives'[month] = archives[month]
               /\ Appended(get_current_month(nowDays)) # <<>>
               /\ Appended(get_current_month(nowDays))
                     [Len(Appended(get_current_month(nowDays)))] = "\n"
               /\ Lines(Appended(get_current_month(nowDays)))
                     = [i \in 1..Len(Completed(todoFile)) |->
                          <<"[">> \o get_current_date(nowDays) \o <<"]", " ">>
                          \o Completed(todoFile)[i].title]]_vars

\* a successful archive on the first day of a month, with the file of the
\* month before still holding its entry
C18_Witness ==
    /\ last.op = "archive_completed_todos"
    /\ last.result.ok
    /\ last.result.value >= 1
    /\ Cardinality(DOMAIN archives) = 2
    /\ \A month \in DOMAIN archives : archives[month] # <<>>

\* C20 as stated: archive_completed_todos appends to the archive file first,
\* then writes the statistics, then rewrites the live file; so whenever a call
\* has written the statistics it has appended to the archive file.
C20_ArchiveThenStatsThenLive ==
    [][ArchiveCalled =>
         /\ metaFile' # metaFile => ArchiveWritten
         /\ todoFile' # todoFile => (ArchiveWritten /\ StatsWritten)]_vars

\* C20 as amended: archive_completed_todos writes the statistics first, then
\* appends to the archive file, then rewrites the live file; so whenever a
\* call has appended to the archive file it has written the statistics, and
\* whenever it has rewritten the live file it has done both.
C20_StatsThenArchiveThenLive ==
    [][ArchiveCalled =>
         /\ archives' # archives => StatsWritten
         /\ todoFile' # todoFile => (StatsWritten /\ ArchiveWritten)]_vars

\* the append to the archive file failed: the statistics count the completed
\* item, no archive file has it, the live file still has it
C20_Witness ==
    /\ last.op = "archive_completed_todos"
    /\ last.result = Err("Failed to write archive file")
    /\ PersistedStats(metaFile).total_completed >= 1
    /\ DOMAIN archives = {}
    /\ Completed(todoFile) # <<>>

\* how many days in a row, today the first and walking backward by the
\* previous-day step, have an entry above zero
NonZeroRun(by_day, date) ==
    CHOOSE n \in 0..(Cardinality(DOMAIN by_day) + 1) :
        /\ \A i \in 0..(n - 1) : MapGet(by_day, DaysBefore(date, i)) > 0
        /\ MapGet(by_day, DaysBefore(date, n)) = 0

\* C21: calculate_streak returns the number of consecutive days, walking
\* backward from today, for which completions_by_day has a non-zero entry,
\* stopping at the first day with no entry or a zero entry; with an entry for
\* yesterday and none for today the result is 0.
C21_StreakCountsNonZeroDays ==
    last.op = "calculate_streak" =>
        last.result.value
          = NonZeroRun(metaFile.data.stats.completions_by_day, get_current_date(nowDays))

AfterMarker(line) ==
    IF StartsWith(TrimStart(line), <<"x">>) THEN TrimStart(Tail(TrimStart(line)))
    ELSE line

\* "(", one uppercase letter, ")" at the very start
LeadingPriority(rest) ==
    Len(rest) >= 3 /\ rest[1] = "(" /\ rest[2] \in Uppercase /\ rest[3] = ")"

\* C23: a priority is recognised exactly when the text remaining after the
\* completion marker starts with "(", one uppercase letter, ")"; only that
\* leading token is removed, so a parenthesised uppercase letter anywhere else
\* in the line is no priority and stays in the title.
C23_OnlyLeadingPriority ==
    \A line \in PriorityLines :
        (cPc = "text-parsed" /\ cText = line) =>
            /\ Len(cParsed) = 1
            /\ cParsed[1].priority
                 = IF LeadingPriority(AfterMarker(line))
                   THEN Some(<<AfterMarker(line)[2]>>) ELSE None
            /\ cParsed[1].title
                 = Join(SplitWhitespace(
                            IF LeadingPriority(AfterMarker(line))
                            THEN SubSeq(AfterMarker(line), 4, Len(AfterMarker(line)))
                            ELSE AfterMarker(line)),
                        <<" ">>)

RECURSIVE SumOver(_, _)
SumOver(counts, keys) ==
    IF keys = {} THEN 0
    ELSE LET rest(k) == counts[k] + SumOver(counts, keys \ {k})
         IN rest(CHOOSE k \in keys : TRUE)

\* the entries of all archive files: one line each
ArchiveEntries ==
    SumOver([month \in DOMAIN archives |-> Len(Lines(archives[month]))], DOMAIN archives)

\* C26: in every state reached by archive_completed_todos calls, successful or
\* failed, retries included, on a vault that had no metadata and no archive,
\* total_completed equals the sum of completions_by_day, the sum of
\* completions_by_month and the number of entries in all archive files.
C26_CountersMatchArchives ==
    metaFile.state # "corrupt" =>
        LET conserved(stats) ==
                /\ stats.total_completed
                     = SumOver(stats.completions_by_day, DOMAIN stats.completions_by_day)
                /\ stats.total_completed
                     = SumOver(stats.completions_by_month, DOMAIN stats.completions_by_month)
                /\ stats.total_completed = ArchiveEntries
        IN conserved(PersistedStats(metaFile))

\* C27: the previous-day step of calculate_streak is the inverse of
\* get_current_date's day sequence: with an entry of at least one completion
\* for each of the last n consecutive days and no other entry, as archiving on
\* n days in a row leaves them, also across a month or year boundary, the
\* streak computed on the n-th day is n.
C27_StreakOfConsecutiveDays ==
    last.op = "calculate_streak" =>
        \A n \in 1..(MaxBack + 1) :
            LET archived(by_day) ==
                    /\ DOMAIN by_day = {get_current_date(nowDays - i) : i \in 0..(n - 1)}
                    /\ \A day \in DOMAIN by_day : by_day[day] >= 1
            IN archived(metaFile.data.stats.completions_by_day)
                   => last.result.value = n

\* ------------------------------------------------------------------------
\* The editing commands (SpecEdit)
\* ------------------------------------------------------------------------
EditOps == {"update_todo", "toggle_todo", "update_todo_due_date", "update_todo_metadata"}

\* C25: update_todo, toggle_todo, update_todo_due_date and update_todo_metadata
\* never change how many items the live file holds: after a successful call
\* load_todos returns as many items as before, the targeted item is at the
\* position it had, and every other item is as it was, also when the new
\* title is empty or the item has no metadata.
C25_EditsKeepTheOtherItems ==
    [][(last'.op \in EditOps /\ last'.result.ok) =>
          LET kept(before, after, at) ==
                  /\ Len(after) = Len(before)
                  /\ after[at].id = before[at].id
                  /\ \A i \in 1..Len(before) : i # at => after[i] = before[i]
              same(before, after) ==
                  kept(before, after, find_todo(before, last'.result.value))
          IN same(load_todos(todoFile), load_todos(todoFile'))]_vars

\* C28: reorder_todo(old_index, new_index) with both indices in range leaves
\* the file holding the same items, the moved item at new_index and the other
\* items in their previous relative order with unchanged fields; with either
\* index out of range it returns an error and leaves the file unchanged; with
\* old_index = new_index it writes nothing.
C28_ReorderMovesOneItem ==
    [][last'.op = "reorder_todo" =>
          LET without(todos_list, at) ==
                  [i \in 1..(Len(todos_list) - 1) |->
                      IF i < at THEN todos_list[i] ELSE todos_list[i + 1]]
              moved(before, after, old_index, new_index) ==
                  IF old_index >= Len(before) \/ new_index >= Len(before)
                  THEN ~last'.result.ok /\ todoFile' = todoFile
                  ELSE IF old_index = new_index
                  THEN last'.result.ok /\ todoFile' = todoFile
                  ELSE IF ~last'.result.ok THEN todoFile' = todoFile
                  ELSE /\ Len(after) = Len(before)
                       /\ SameButIds(<<after[new_index + 1]>>, <<before[old_index + 1]>>)
                       /\ SameButIds(without(after, new_index + 1),
                                     without(before, old_index + 1))
          IN moved(load_todos(todoFile), load_todos(todoFile'),
                   last'.args[1], last'.args[2])]_vars

\* ------------------------------------------------------------------------
\* Two commands at once (SpecRace)
\* ------------------------------------------------------------------------
BothReturned ==
    /\ running.create_todo.pc = "done"
    /\ running.toggle_todo.pc = "done"
    /\ running.create_todo.result.ok
    /\ running.toggle_todo.result.ok

\* C24: when create_todo and toggle_todo of another item run at the same time
\* on one vault and both succeed, the live file reflects both changes: it
\* holds the items it had, the toggled one with its flag flipped, and the new
\* item after them, whatever the interleaving of their loads and saves.
C24_BothMutationsSurvive ==
    BothReturned =>
        LET merged(origin, at, created) ==
                load_todos(todoFile)
                  = Append([origin EXCEPT ![at].completed = ~origin[at].completed],
                           created)
            both(origin, todos_list) ==
                merged(origin, find_todo(origin, running.toggle_todo.result.value),
                       todos_list[Len(todos_list)])
        IN both(load_todos(running.found), running.create_todo.todos_list)


=========================================================================
